---- MODULE Spec2Model ----
(***************************************************************************)
(* A model of src/src/database.ts: the Database class (CSV loading, column *)
(* type inference, per-column sorted indices, query validation, filter and *)
(* projection) and the ColumnIndex class (stable sort, three binary        *)
(* searches).                                                              *)
(*                                                                         *)
(* JavaScript objects are modelled with their identity: `objects` maps the *)
(* id of every live row object to its own properties and `arrays` maps the *)
(* id of every live array to the sequence of row ids it holds.  Strings    *)
(* are sequences of UTF-16 code units, so that `<` on strings, the digit   *)
(* test of the cast and parseInt are computed, not assumed.                *)
(***************************************************************************)
EXTENDS Integers, Sequences, FiniteSets, TLC

VARIABLES
  phase,          \* "new" | "ready" | "returned" | "failed": the caller's position
  columnTypes,    \* Database.columnTypes: own properties, column -> "string" | "number"
  columnIndices,  \* Database.columnIndices: column -> id of ColumnIndex.rows
  rows,           \* Database.rows: id of the array (0: the initial empty array)
  objects,        \* heap: row object id -> its own properties
  arrays,         \* heap: array id -> sequence of row object ids
  outcome,        \* what the last call gave its caller: a result or an error
  held,           \* ids of an earlier result the caller still keeps
  input,          \* history: the records the reader yielded to the constructor
  built,          \* history: the columns whose ColumnIndex constructor has run
  sortMixed,      \* history: a sort comparator compared a string with a number
  snapshot,       \* history: the table as it was when the constructor returned
  trace           \* history: the last query, the stages it ran, its searches

vars == <<phase, columnTypes, columnIndices, rows, objects, arrays, outcome,
          held, input, built, sortMixed, snapshot, trace>>

----------------------------------------------------------------------------
(* Bounds and input sets *)

MaxRows == 3

\* The header row of the CSV text: Object.keys(rows[0]) in this order.
Header == <<"title", "year">>

\* Cell texts of each column, as UTF-16 code units: "2", "a", "b" under
\* title and "01", "2", "3", "a" under year.
Cells ==
  [title |-> {<<50>>, <<97>>, <<98>>},
   year |-> {<<48, 49>>, <<50>>, <<51>>, <<97>>}]

Range(s) == {s[i] : i \in 1..Len(s)}

\* The CSV texts given to the constructor, as the cell texts of their data rows.
CsvRows == {r \in [Range(Header) -> UNION {Cells[c] : c \in DOMAIN Cells}] :
              \A c \in Range(Header) : r[c] \in Cells[c]}

CsvInputs == UNION {[1..n -> CsvRows] : n \in 0..MaxRows}

----------------------------------------------------------------------------
(* Values: type Value = string | number, plus what a lookup can also give *)

StringValue(s) == [type |-> "string", str |-> s, num |-> 0]

NumberValue(n) == [type |-> "number", str |-> <<>>, num |-> n]

\* An inherited member of Object.prototype, e.g. ({}).constructor.
FunctionValue == [type |-> "function", str |-> <<>>, num |-> 0]

Undefined == [type |-> "undefined", str |-> <<>>, num |-> 0]

\* typeof
TypeOf(v) == v.type

IsDigit(u) == u \in 48..57

\* /^\d+$/.test(value)
IsDigits(s) == Len(s) >= 1 /\ \A i \in 1..Len(s) : IsDigit(s[i])

RECURSIVE ParseIntFrom(_, _)
ParseIntFrom(s, acc) ==
  IF s = <<>> THEN acc ELSE ParseIntFrom(Tail(s), acc * 10 + (Head(s) - 48))

\* parseInt(value, 10) of a string of digits
ParseInt(s) == ParseIntFrom(s, 0)

\* The cast callback given to csv-parse.
Cast(s) == IF IsDigits(s) THEN NumberValue(ParseInt(s)) ELSE StringValue(s)

\* Strings compare by code units, a proper prefix first.
RECURSIVE StrLess(_, _)
StrLess(s, t) ==
  IF t = <<>> THEN FALSE
  ELSE IF s = <<>> THEN TRUE
  ELSE IF Head(s) # Head(t) THEN Head(s) < Head(t)
  ELSE StrLess(Tail(s), Tail(t))

\* ToNumber, for the strings of this model's alphabet (digits and letters):
\* "" is 0, a string of digits is its number, anything else is NaN.
ToNumber(v) ==
  IF v.type = "number" THEN [nan |-> FALSE, num |-> v.num]
  ELSE IF v.type = "string" /\ v.str = <<>> THEN [nan |-> FALSE, num |-> 0]
  ELSE IF v.type = "string" /\ IsDigits(v.str) THEN [nan |-> FALSE, num |-> ParseInt(v.str)]
  ELSE [nan |-> TRUE, num |-> 0]

\* a < b: two strings compare as strings, anything else as numbers, and a
\* comparison with NaN is false.
JsLess(a, b) ==
  IF a.type = "string" /\ b.type = "string" THEN StrLess(a.str, b.str)
  ELSE LET x == ToNumber(a)
           y == ToNumber(b)
       IN ~x.nan /\ ~y.nan /\ x.num < y.num

\* a > b
JsGreater(a, b) == JsLess(b, a)

\* A string was compared with a number.
MixedTypes(a, b) == a.type # b.type

----------------------------------------------------------------------------
(* The heap *)

\* Members every plain object inherits from Object.prototype (some of them).
ObjectPrototypeKeys == {"constructor", "toString", "valueOf", "hasOwnProperty"}

\* obj[key] on a plain object: an own property, else an inherited one, else
\* undefined.
GetProp(own, key) ==
  IF key \in DOMAIN own THEN own[key]
  ELSE IF key \in ObjectPrototypeKeys THEN FunctionValue
  ELSE Undefined

Min(S) == CHOOSE x \in S : \A y \in S : x <= y

\* The k least ids not in `used`: where the next k allocations land.
RECURSIVE FreshIds(_, _)
FreshIds(used, k) ==
  IF k = 0 THEN <<>>
  ELSE LET x == Min((1..(Cardinality(used) + 1)) \ used)
       IN <<x>> \o FreshIds(used \cup {x}, k - 1)

EmptyHeap == [i \in {} |-> 0]

NoProps == [c \in {} |-> 0]

Restrict(f, S) == [x \in (DOMAIN f) \cap S |-> f[x]]

----------------------------------------------------------------------------
(* Arrays *)

\* Array.prototype.splice in the place of slice: the new array is the same,
\* but the elements leave the receiver.
ArraySplice(A, used, ref, start, end) ==
  LET id == FreshIds((DOMAIN A) \cup used, 1)[1]
  IN [arrays |-> (id :> SubSeq(A[ref], start + 1, end))
                   @@ [A EXCEPT ![ref] = SubSeq(@, 1, start) \o SubSeq(@, end + 1, Len(@))],
      ref |-> id]

\* Array.prototype.slice(start, end) with 0 <= start: a new array holding
\* the elements at the 0-based positions start .. end-1; the receiver is
\* left as it is.
ArraySlice(A, used, ref, start, end) ==
  LET id == FreshIds((DOMAIN A) \cup used, 1)[1]
  IN [arrays |-> A @@ (id :> SubSeq(A[ref], start + 1, end)), ref |-> id]

\* An empty array literal [].
ArrayLiteral(A, used) ==
  LET id == FreshIds((DOMAIN A) \cup used, 1)[1]
  IN [arrays |-> A @@ (id :> <<>>), ref |-> id]

----------------------------------------------------------------------------
(* class ColumnIndex *)

\* A comparator that never answers 0: (a, b) => a[column] < b[column] ? -1 : 1.
CompareNeverEqual(column, O, a, b) ==
  IF JsLess(GetProp(O[a], column), GetProp(O[b], column)) THEN -1 ELSE 1

\* The comparator given to sort: -1, 1 or 0 for rows a and b.
Compare(column, O, a, b) ==
  IF JsLess(GetProp(O[a], column), GetProp(O[b], column)) THEN -1
  ELSE IF JsGreater(GetProp(O[a], column), GetProp(O[b], column)) THEN 1
  ELSE 0

\* One step of a stable sort: x, which came after every element of s, goes
\* behind the last element the comparator does not put after it.
RECURSIVE InsertSorted(_, _, _, _)
InsertSorted(column, O, s, x) ==
  IF s = <<>> THEN <<x>>
  ELSE IF Compare(column, O, s[Len(s)], x) > 0
       THEN Append(InsertSorted(column, O, SubSeq(s, 1, Len(s) - 1), x), s[Len(s)])
       ELSE Append(s, x)

RECURSIVE SortFrom(_, _, _, _)
SortFrom(column, O, done, rest) ==
  IF rest = <<>> THEN done
  ELSE SortFrom(column, O, InsertSorted(column, O, done, Head(rest)), Tail(rest))

\* Array.prototype.sort with the comparator: stable (ECMAScript 2019), so for
\* a comparator that is a consistent order the result is this one.
ArraySort(column, O, items) == SortFrom(column, O, <<>>, items)

\* Whether the comparator meets a string and a number while sorting: any
\* comparison sort of two or more elements must compare across the two
\* groups when both are present.
SortComparesMixed(column, O, items) ==
  \E i, j \in 1..Len(items) :
    MixedTypes(GetProp(O[items[i]], column), GetProp(O[items[j]], column))

\* new ColumnIndex(column, rows): this.rows = rows.slice().sort(...)
ColumnIndex(column, O, A, used, ref) ==
  LET copy == ArraySlice(A, used, ref, 0, Len(A[ref]))
  IN [arrays |-> [copy.arrays EXCEPT ![copy.ref] = ArraySort(column, O, @)],
      ref |-> copy.ref,
      mixed |-> SortComparesMixed(column, O, A[ref])]

----------------------------------------------------------------------------
(* Database: construction *)

\* loadRows: csv-parse with columns: true makes one plain object per data
\* row, keyed by the header, each cell passed through the cast.
loadRows(csv) == [i \in 1..Len(csv) |-> [c \in DOMAIN csv[i] |-> Cast(csv[i][c])]]

RECURSIVE buildColumnTypesFrom(_, _, _)
buildColumnTypesFrom(columns, recs, acc) ==
  IF columns = <<>> THEN [error |-> "none", types |-> acc]
  ELSE LET column == Head(columns)
           allStrings == \A i \in 1..Len(recs) : TypeOf(GetProp(recs[i], column)) = "string"
           allNumbers == \A i \in 1..Len(recs) : TypeOf(GetProp(recs[i], column)) = "number"
       IN IF ~allStrings /\ ~allNumbers
          THEN [error |-> "DataError", types |-> NoProps]
          ELSE buildColumnTypesFrom(Tail(columns), recs,
                 (column :> (IF allNumbers THEN "number" ELSE "string")) @@ acc)

\* Column types read off the first record alone, with nothing thrown.
buildColumnTypesFirstRow(columns, recs) ==
  [error |-> "none", types |-> [c \in Range(columns) |-> TypeOf(GetProp(recs[1], c))]]

\* buildColumnTypes: columns.reduce over the records; throws on the first
\* column that is neither all strings nor all numbers.
buildColumnTypes(columns, recs) == buildColumnTypesFrom(columns, recs, NoProps)

RECURSIVE buildColumnIndicesFrom(_, _, _, _, _)
buildColumnIndicesFrom(columns, O, A, ref, acc) ==
  IF columns = <<>> THEN [arrays |-> A, indices |-> acc.indices, mixed |-> acc.mixed,
                          built |-> acc.built]
  ELSE LET index == ColumnIndex(Head(columns), O, A, {}, ref)
       IN buildColumnIndicesFrom(Tail(columns), O, index.arrays, ref,
            [indices |-> (Head(columns) :> index.ref) @@ acc.indices,
             mixed |-> acc.mixed \/ index.mixed,
             built |-> acc.built \cup {Head(columns)}])

\* buildColumnIndices: one ColumnIndex per column, in column order.
buildColumnIndices(columns, O, A, ref) ==
  buildColumnIndicesFrom(columns, O, A, ref,
    [indices |-> NoProps, mixed |-> FALSE, built |-> {}])

\* What a Database whose constructor threw leaves behind: nothing.
NoTable ==
  [error |-> "DataError", columnTypes |-> NoProps, columnIndices |-> NoProps,
   rows |-> 0, objects |-> EmptyHeap, arrays |-> EmptyHeap,
   built |-> {}, mixed |-> FALSE]

\* loadData: the rows, then every column's type, then every column's index.
loadData(csv) ==
  LET recs == loadRows(csv)
      n == Len(recs)
  IN IF n = 0 THEN NoTable
     ELSE LET columns == Header
              O == [i \in 1..n |-> recs[i]]
              A == (1 :> [i \in 1..n |-> i])
              types == buildColumnTypes(columns, recs)
          IN IF types.error # "none" THEN NoTable
             ELSE LET ix == buildColumnIndices(columns, O, A, 1)
                  IN [error |-> "none", columnTypes |-> types.types,
                      columnIndices |-> ix.indices, rows |-> 1,
                      objects |-> O, arrays |-> ix.arrays,
                      built |-> ix.built, mixed |-> ix.mixed]

----------------------------------------------------------------------------
(* class ColumnIndex: the binary searches *)

\* let right = this.rows.length
LastIndexPastEnd(items) == Len(items)

\* let right = this.rows.length - 1
LastIndex(items) == Len(items) - 1

\* let left = 0; let right = this.rows.length - 1; let result = -1
SearchStart(items) ==
  [left |-> 0, right |-> LastIndex(items), result |-> -1,
   probes |-> <<>>, mixed |-> FALSE, thrown |-> FALSE]

\* Math.floor((left + right) / 2)
Mid(s) == (s.left + s.right) \div 2

\* The state `probed` after reading this.rows[mid]: the probe is recorded,
\* and reading row[column] of a position outside the array throws.
Probe(items, s) ==
  [s EXCEPT !.probes = Append(@, Mid(s)),
            !.thrown = Mid(s) + 1 \notin 1..Len(items)]

\* this.rows[mid][this.column], once the probe is known to be in the array.
Cell(column, O, items, p) == GetProp(O[items[p.probes[Len(p.probes)] + 1]], column)

\* One iteration of findFirstEqual's loop on the probed state p.
findFirstEqualStep(p, mid, cell, value) ==
  IF JsLess(cell, value)
  THEN [p EXCEPT !.mixed = @ \/ MixedTypes(cell, value), !.left = mid + 1]
  ELSE IF JsGreater(cell, value)
  THEN [p EXCEPT !.mixed = @ \/ MixedTypes(cell, value), !.right = mid - 1]
  ELSE [p EXCEPT !.mixed = @ \/ MixedTypes(cell, value), !.result = mid, !.right = mid - 1]

RECURSIVE findFirstEqualLoop(_, _, _, _, _)
findFirstEqualLoop(column, O, items, value, s) ==
  IF s.left > s.right THEN s
  ELSE IF Probe(items, s).thrown THEN Probe(items, s)
  ELSE findFirstEqualLoop(column, O, items, value,
         findFirstEqualStep(Probe(items, s), Mid(s),
                            Cell(column, O, items, Probe(items, s)), value))

findFirstEqual(column, O, items, value) ==
  findFirstEqualLoop(column, O, items, value, SearchStart(items))

\* findLastEqual's loop going left on an equal row, as findFirstEqual's does.
findLastEqualStepGoingLeft(p, mid, cell, value) == findFirstEqualStep(p, mid, cell, value)

\* One iteration of findLastEqual's loop on the probed state p.
findLastEqualStep(p, mid, cell, value) ==
  IF JsLess(cell, value)
  THEN [p EXCEPT !.mixed = @ \/ MixedTypes(cell, value), !.left = mid + 1]
  ELSE IF JsGreater(cell, value)
  THEN [p EXCEPT !.mixed = @ \/ MixedTypes(cell, value), !.right = mid - 1]
  ELSE [p EXCEPT !.mixed = @ \/ MixedTypes(cell, value), !.result = mid, !.left = mid + 1]

RECURSIVE findLastEqualLoop(_, _, _, _, _)
findLastEqualLoop(column, O, items, value, s) ==
  IF s.left > s.right THEN s
  ELSE IF Probe(items, s).thrown THEN Probe(items, s)
  ELSE findLastEqualLoop(column, O, items, value,
         findLastEqualStep(Probe(items, s), Mid(s),
                           Cell(column, O, items, Probe(items, s)), value))

findLastEqual(column, O, items, value) ==
  findLastEqualLoop(column, O, items, value, SearchStart(items))

\* findFirstGreaterThan's loop testing row[column] >= value.
findFirstGreaterThanStepOrEqual(p, mid, cell, value) ==
  IF ~JsLess(cell, value)
  THEN [p EXCEPT !.mixed = @ \/ MixedTypes(cell, value), !.result = mid, !.right = mid - 1]
  ELSE [p EXCEPT !.mixed = @ \/ MixedTypes(cell, value), !.left = mid + 1]

\* One iteration of findFirstGreaterThan's loop on the probed state p.
findFirstGreaterThanStep(p, mid, cell, value) ==
  IF JsGreater(cell, value)
  THEN [p EXCEPT !.mixed = @ \/ MixedTypes(cell, value), !.result = mid, !.right = mid - 1]
  ELSE [p EXCEPT !.mixed = @ \/ MixedTypes(cell, value), !.left = mid + 1]

RECURSIVE findFirstGreaterThanLoop(_, _, _, _, _)
findFirstGreaterThanLoop(column, O, items, value, s) ==
  IF s.left > s.right THEN s
  ELSE IF Probe(items, s).thrown THEN Probe(items, s)
  ELSE findFirstGreaterThanLoop(column, O, items, value,
         findFirstGreaterThanStep(Probe(items, s), Mid(s),
                                  Cell(column, O, items, Probe(items, s)), value))

findFirstGreaterThan(column, O, items, value) ==
  findFirstGreaterThanLoop(column, O, items, value, SearchStart(items))

\* What one search leaves in the trace.
SearchRecord(name, items, s) ==
  [name |-> name, n |-> Len(items), probes |-> s.probes, result |-> s.result,
   mixed |-> s.mixed, thrown |-> s.thrown]

NoArray(error, A, searches) ==
  [error |-> error, arrays |-> A, ref |-> 0, searches |-> searches]

WithSearches(made, searches) ==
  [error |-> "none", arrays |-> made.arrays, ref |-> made.ref, searches |-> searches]

\* searchEqual once the first equal position is known: [] when there is
\* none, else findLastEqual and the slice from the first to the last.
searchEqualFrom(A, used, ref, first, last) ==
  IF first.thrown THEN NoArray("TypeError", A, <<first>>)
  ELSE IF first.result = -1 THEN WithSearches(ArrayLiteral(A, used), <<first>>)
  ELSE IF last.thrown THEN NoArray("TypeError", A, <<first, last>>)
  ELSE WithSearches(ArraySlice(A, used, ref, first.result, last.result + 1),
                    <<first, last>>)

searchEqual(column, O, A, used, ref, value) ==
  searchEqualFrom(A, used, ref,
    SearchRecord("findFirstEqual", A[ref], findFirstEqual(column, O, A[ref], value)),
    SearchRecord("findLastEqual", A[ref], findLastEqual(column, O, A[ref], value)))

\* searchGreaterThan returning this.rows.splice(index).
searchGreaterThanFromSplice(A, used, ref, index) ==
  IF index.thrown THEN NoArray("TypeError", A, <<index>>)
  ELSE IF index.result = -1 THEN WithSearches(ArrayLiteral(A, used), <<index>>)
  ELSE WithSearches(ArraySplice(A, used, ref, index.result, Len(A[ref])), <<index>>)

\* searchGreaterThan once the first greater position is known: [] when
\* there is none, else the slice from it to the end.
searchGreaterThanFrom(A, used, ref, index) ==
  IF index.thrown THEN NoArray("TypeError", A, <<index>>)
  ELSE IF index.result = -1 THEN WithSearches(ArrayLiteral(A, used), <<index>>)
  ELSE WithSearches(ArraySlice(A, used, ref, index.result, Len(A[ref])), <<index>>)

searchGreaterThan(column, O, A, used, ref, value) ==
  searchGreaterThanFrom(A, used, ref,
    SearchRecord("findFirstGreaterThan", A[ref],
                 findFirstGreaterThan(column, O, A[ref], value)))

----------------------------------------------------------------------------
(* Queries *)

\* A query with no FILTER clause has this in place of its filter.
NoFilter == [column |-> "", op |-> "none", value |-> Undefined]

\* What the parser makes of a text it rejects.
SyntaxError == [ok |-> FALSE, columns |-> <<>>, filter |-> NoFilter]

\* Column names in query texts: bare identifiers.
Identifiers == {"title", "year", "unknown", "constructor"}

\* Operands in query texts: the quoted strings "A", "a", "ab", "b" and the
\* digit sequences 0 .. 3.
Operands ==
  {StringValue(s) : s \in {<<65>>, <<97>>, <<97, 98>>, <<98>>}}
    \cup {NumberValue(n) : n \in 0..3}

\* The PROJECT lists of the query texts: those that name columns of the
\* header only, and those that name another identifier.
HeaderLists == {<<"title">>, <<"year", "title">>, <<"title", "title">>}

OtherLists == {<<"unknown">>, <<"title", "unknown">>, <<"constructor">>}

\* The FILTER clauses of the query texts: every operand on the two columns
\* of the header, two operands on the other identifiers.
Filters ==
  {NoFilter}
    \cup [column : Range(Header), op : {"=", ">"}, value : Operands]
    \cup [column : Identifiers \ Range(Header), op : {"=", ">"},
          value : {StringValue(<<97>>), NumberValue(1)}]

\* The FILTER clauses that go with the lists naming another identifier.
FewFilters ==
  {f \in Filters :
     \/ f = NoFilter
     \/ f.op = "=" /\ f.value \in {StringValue(<<97>>), NumberValue(1)}}

\* parseQuery: what queryParser.parse makes of the query texts; a syntax
\* error becomes a QueryError in query.
ParsedQueries ==
  {SyntaxError}
    \cup [ok : {TRUE}, columns : HeaderLists, filter : Filters]
    \cup [ok : {TRUE}, columns : OtherLists, filter : FewFilters]

\* A few of them, for the runs in which the caller keeps and changes results.
CallerQueries ==
  {q \in ParsedQueries :
     /\ q.ok
     /\ q.columns \in {<<"title">>, <<"year", "title">>}
     /\ \/ q.filter = NoFilter
        \/ /\ q.filter.column = "year"
           /\ q.filter.value = NumberValue(1)}

----------------------------------------------------------------------------
(* Database: query *)

\* this.columnTypes[column]: columnTypes is a plain object, so the lookup
\* finds an own property, else an inherited member, else undefined.
LookupColumnType(types, column) ==
  IF column \in DOMAIN types THEN types[column]
  ELSE IF column \in ObjectPrototypeKeys THEN "[Function]"
  ELSE "undefined"

\* validateQuery without its check of the operand's type.
validateQueryUntyped(types, q) ==
  IF \E i \in 1..Len(q.columns) : LookupColumnType(types, q.columns[i]) = "undefined"
  THEN "Unknown column"
  ELSE IF q.filter.op = "none" THEN ""
  ELSE IF LookupColumnType(types, q.filter.column) = "undefined" THEN "Unknown column"
  ELSE ""

\* validateQuery: "" when it returns, else the message of the QueryError.
validateQuery(types, q) ==
  IF \E i \in 1..Len(q.columns) : LookupColumnType(types, q.columns[i]) = "undefined"
  THEN "Unknown column"
  ELSE IF q.filter.op = "none" THEN ""
  ELSE IF LookupColumnType(types, q.filter.column) = "undefined" THEN "Unknown column"
  ELSE IF LookupColumnType(types, q.filter.column) # TypeOf(q.filter.value)
  THEN "Invalid value type"
  ELSE ""

\* filter: the search of the filter column's index; calling a method of a
\* missing index throws a TypeError.
filter(db, O, A, used, f) ==
  IF f.column \notin DOMAIN db.columnIndices THEN NoArray("TypeError", A, <<>>)
  ELSE CASE f.op = "=" ->
              searchEqual(f.column, O, A, used.arrays, db.columnIndices[f.column], f.value)
         [] f.op = ">" ->
              searchGreaterThan(f.column, O, A, used.arrays, db.columnIndices[f.column], f.value)
         [] OTHER -> NoArray("Error", A, <<>>)

\* A projection that copies every property of the row.
projectRowWhole(row, columns) == row

\* The object one row is projected to: {} filled by acc[column] = row[column].
projectRow(row, columns) == [c \in Range(columns) |-> GetProp(row, c)]

\* rows.map((row) => row): a new array of the same row objects.
projectIntoSameRows(O, A, items, columns, ids, arr) ==
  [objects |-> O, arrays |-> A @@ (arr :> items), ref |-> arr]

\* The heap after rows.map has made its objects ids[1..] and its array arr.
projectInto(O, A, items, columns, ids, arr) ==
  [objects |-> [id \in Range(ids) |->
                  projectRow(O[items[CHOOSE k \in 1..Len(ids) : ids[k] = id]], columns)]
               @@ O,
   arrays |-> A @@ (arr :> ids),
   ref |-> arr]

\* project: rows.map makes a new array and a new object for each row.
project(O, A, used, ref, columns) ==
  projectInto(O, A, A[ref], columns,
              FreshIds((DOMAIN O) \cup used.objects, Len(A[ref])),
              FreshIds((DOMAIN A) \cup used.arrays, 1)[1])

NoOutcome == [kind |-> "none", message |-> "", columns |-> <<>>, rows |-> 0]

Thrown(kind, message) == [kind |-> kind, message |-> message, columns |-> <<>>, rows |-> 0]

\* What a call leaves in the trace.
Trace(q, O, A, used, stages, filtered, searches) ==
  [query |-> q,
   pre |-> [objects |-> (DOMAIN O) \cup used.objects,
            arrays |-> (DOMAIN A) \cup used.arrays],
   stages |-> stages, filtered |-> filtered, searches |-> searches, mutations |-> 0]

\* The stages of query that ran before project, by the query's filter.
StagesBeforeProject(q) ==
  IF q.filter.op = "none" THEN <<"parse", "validate">>
  ELSE <<"parse", "validate", "filter">>

\* return { columns: parsedQuery.columns, rows: rows } after project.
queryProjected(O, A, used, q, f, p) ==
  [objects |-> p.objects, arrays |-> p.arrays,
   outcome |-> [kind |-> "result", message |-> "", columns |-> q.columns, rows |-> p.ref],
   trace |-> Trace(q, O, A, used, Append(StagesBeforeProject(q), "project"),
                   f.arrays[f.ref], f.searches)]

\* query after the filter stage gave f (or threw).
queryFiltered(O, A, used, q, f) ==
  IF f.error # "none"
  THEN [objects |-> O, arrays |-> f.arrays, outcome |-> Thrown(f.error, ""),
        trace |-> Trace(q, O, A, used, StagesBeforeProject(q), <<>>, f.searches)]
  ELSE queryProjected(O, A, used, q, f, project(O, f.arrays, used, f.ref, q.columns))

\* query after validateQuery gave its message ("": it returned).
queryValidated(db, O, A, used, q, message) ==
  IF message # ""
  THEN [objects |-> O, arrays |-> A, outcome |-> Thrown("QueryError", message),
        trace |-> Trace(q, O, A, used, <<"parse", "validate">>, <<>>, <<>>)]
  ELSE queryFiltered(O, A, used, q,
         IF q.filter.op = "none" THEN WithSearches([arrays |-> A, ref |-> db.rows], <<>>)
         ELSE filter(db, O, A, used, q.filter))

\* query: parse, validate, filter if there is a filter, project.
query(db, O, A, used, q) ==
  IF ~q.ok
  THEN [objects |-> O, arrays |-> A, outcome |-> Thrown("QueryError", "syntax"),
        trace |-> Trace(q, O, A, used, <<"parse">>, <<>>, <<>>)]
  ELSE queryValidated(db, O, A, used, q, validateQuery(db.columnTypes, q))

----------------------------------------------------------------------------
(* The state machine *)

NoTrace ==
  [query |-> SyntaxError, pre |-> [objects |-> {}, arrays |-> {}],
   filtered |-> <<>>, searches |-> <<>>, mutations |-> 0, stages |-> <<>>]

NoSnapshot ==
  [columnTypes |-> NoProps, columnIndices |-> NoProps, rows |-> 0,
   objects |-> EmptyHeap, arrays |-> EmptyHeap]

\* The Database object: its three fields.
Db == [columnTypes |-> columnTypes, columnIndices |-> columnIndices, rows |-> rows]

\* The arrays the table owns, and the row objects they hold.
TableArrays(db, A) ==
  ({db.rows} \cup {db.columnIndices[c] : c \in DOMAIN db.columnIndices}) \cap DOMAIN A

TableObjects(db, A) == UNION {Range(A[a]) : a \in TableArrays(db, A)}

\* The table as the heap has it: the fields and everything they reach.
TableState(db, O, A) ==
  [columnTypes |-> db.columnTypes, columnIndices |-> db.columnIndices,
   rows |-> db.rows,
   objects |-> Restrict(O, TableObjects(db, A)),
   arrays |-> Restrict(A, TableArrays(db, A))]

\* What the caller holds of a result: its array and the rows in it.
ResultArrays(out) == IF out.kind = "result" THEN {out.rows} ELSE {}

ResultObjects(out, A) == UNION {Range(A[a]) : a \in ResultArrays(out) \cap DOMAIN A}

\* Garbage collection: an array that neither the table nor the caller's
\* result is, and a row object no such array holds, is gone.
CollectArrays(db, out, A) == Restrict(A, TableArrays(db, A) \cup ResultArrays(out))

CollectObjects(db, out, O, A) ==
  Restrict(O, TableObjects(db, A) \cup ResultObjects(out, A))

Init ==
  /\ phase = "new"
  /\ columnTypes = NoProps
  /\ columnIndices = NoProps
  /\ rows = 0
  /\ objects = EmptyHeap
  /\ arrays = EmptyHeap
  /\ outcome = NoOutcome
  /\ held = [objects |-> {}, arrays |-> {}]
  /\ input = <<>>
  /\ built = {}
  /\ sortMixed = FALSE
  /\ snapshot = NoSnapshot
  /\ trace = NoTrace

\* The state after loadData returned or threw t.
Constructed(t, recs) ==
  /\ phase' = IF t.error = "none" THEN "ready" ELSE "failed"
  /\ columnTypes' = t.columnTypes
  /\ columnIndices' = t.columnIndices
  /\ rows' = t.rows
  /\ objects' = t.objects
  /\ arrays' = t.arrays
  /\ outcome' = IF t.error = "none" THEN NoOutcome ELSE Thrown(t.error, "")
  /\ input' = recs
  /\ built' = t.built
  /\ sortMixed' = t.mixed
  /\ snapshot' = TableState([columnTypes |-> t.columnTypes,
                             columnIndices |-> t.columnIndices,
                             rows |-> t.rows], t.objects, t.arrays)

\* new Database(csv): the constructor runs loadData; when loadData throws,
\* the caller gets the DataError and no Database.
Construct ==
  /\ phase = "new"
  /\ \E csv \in CsvInputs : Constructed(loadData(csv), loadRows(csv))
  /\ UNCHANGED <<held, trace>>

\* The state after query returned or threw r; what the call allocated and
\* nothing reaches any more is collected.
Returned(r) ==
  /\ phase' = "returned"
  /\ outcome' = r.outcome
  /\ trace' = r.trace
  /\ arrays' = CollectArrays(Db, r.outcome, r.arrays)
  /\ objects' = CollectObjects(Db, r.outcome, r.objects, r.arrays)

\* db.query(text): the whole call, up to its return or its throw.
Query ==
  /\ phase = "ready"
  /\ \E q \in ParsedQueries : Returned(query(Db, objects, arrays, held, q))
  /\ UNCHANGED <<columnTypes, columnIndices, rows, held, input, built, sortMixed, snapshot>>

\* The caller lets go of what the call gave it.
Return ==
  /\ phase = "returned"
  /\ phase' = "ready"
  /\ outcome' = NoOutcome
  /\ trace' = NoTrace
  /\ arrays' = CollectArrays(Db, NoOutcome, arrays)
  /\ objects' = CollectObjects(Db, NoOutcome, objects, arrays)
  /\ UNCHANGED <<columnTypes, columnIndices, rows, held, input, built, sortMixed, snapshot>>

Next ==
  \/ Construct
  \/ Query
  \/ Return

Spec == Init /\ [][Next]_vars

----------------------------------------------------------------------------
(* The caller keeps and changes what query returned *)

\* The value the caller writes into a result row: "x".
CallerValue == StringValue(<<120>>)

\* The same call, for a few of the query texts.
QueryFew ==
  /\ phase = "ready"
  /\ \E q \in CallerQueries : Returned(query(Db, objects, arrays, held, q))
  /\ UNCHANGED <<columnTypes, columnIndices, rows, held, input, built, sortMixed, snapshot>>

\* The caller keeps the result, as query returned it, while it goes on to
\* the next calls: the result's array and rows stay allocated (their
\* contents are the caller's and no query reads them).
Keep ==
  /\ phase = "returned"
  /\ outcome.kind = "result"
  /\ trace.mutations = 0
  /\ held.arrays = {}
  /\ phase' = "ready"
  /\ held' = [objects |-> ResultObjects(outcome, arrays), arrays |-> ResultArrays(outcome)]
  /\ outcome' = NoOutcome
  /\ trace' = NoTrace
  /\ arrays' = CollectArrays(Db, NoOutcome, arrays)
  /\ objects' = CollectObjects(Db, NoOutcome, objects, arrays)
  /\ UNCHANGED <<columnTypes, columnIndices, rows, input, built, sortMixed, snapshot>>

\* result.rows[i][column] = "x"
WriteRow ==
  /\ phase = "returned"
  /\ outcome.kind = "result"
  /\ trace.mutations = 0
  /\ \E i \in 1..Len(arrays[outcome.rows]), column \in Range(outcome.columns) :
       objects' = [objects EXCEPT
                     ![arrays[outcome.rows][i]] = (column :> CallerValue) @@ @]
  /\ trace' = [trace EXCEPT !.mutations = 1]
  /\ UNCHANGED <<phase, columnTypes, columnIndices, rows, arrays, outcome, held,
                 input, built, sortMixed, snapshot>>

\* result.rows.pop()
PopRow ==
  /\ phase = "returned"
  /\ outcome.kind = "result"
  /\ trace.mutations = 0
  /\ arrays[outcome.rows] # <<>>
  /\ arrays' = [arrays EXCEPT ![outcome.rows] = SubSeq(@, 1, Len(@) - 1)]
  /\ objects' = CollectObjects(Db, outcome, objects, arrays')
  /\ trace' = [trace EXCEPT !.mutations = 1]
  /\ UNCHANGED <<phase, columnTypes, columnIndices, rows, outcome, held,
                 input, built, sortMixed, snapshot>>

\* result.rows.push({})
PushRow ==
  /\ phase = "returned"
  /\ outcome.kind = "result"
  /\ trace.mutations = 0
  /\ LET id == FreshIds((DOMAIN objects) \cup held.objects, 1)[1]
     IN /\ objects' = (id :> NoProps) @@ objects
        /\ arrays' = [arrays EXCEPT ![outcome.rows] = Append(@, id)]
  /\ trace' = [trace EXCEPT !.mutations = 1]
  /\ UNCHANGED <<phase, columnTypes, columnIndices, rows, outcome, held,
                 input, built, sortMixed, snapshot>>

NextCaller ==
  \/ Construct
  \/ QueryFew
  \/ Return
  \/ Keep
  \/ WriteRow
  \/ PopRow
  \/ PushRow

SpecCaller == Init /\ [][NextCaller]_vars

----------------------------------------------------------------------------
(* What the claims speak of *)

\* A Database exists: the constructor has returned.
Exists == phase \in {"ready", "returned"}

\* The records in load order, and the value of record id in column c.
LoadOrder == arrays[rows]

ValueAt(id, c) == GetProp(objects[id], c)

\* The place of record id in the load order.
LoadPosition(id) == CHOOSE i \in 1..Len(LoadOrder) : LoadOrder[i] = id

\* The query is one validation is meant to accept: every column it names is
\* a column of the loaded data and its operand has the filter column's type.
ValidQuery(q) ==
  /\ q.ok
  /\ \A i \in 1..Len(q.columns) : q.columns[i] \in DOMAIN columnTypes
  /\ \/ q.filter.op = "none"
     \/ /\ q.filter.column \in DOMAIN columnTypes
        /\ columnTypes[q.filter.column] = TypeOf(q.filter.value)

\* A valid query with this filter operator has just returned or thrown.
Answered(op) ==
  /\ phase = "returned"
  /\ ValidQuery(trace.query)
  /\ trace.query.filter.op = op

\* The sequence holds each of its records once.
NoDuplicates(seq) == Cardinality(Range(seq)) = Len(seq)

\* The sequence ascends in column c, records of equal value in load order.
AscendingStable(seq, c) ==
  \A i, j \in 1..Len(seq) :
    i < j => /\ ~JsGreater(ValueAt(seq[i], c), ValueAt(seq[j], c))
             /\ ValueAt(seq[i], c) = ValueAt(seq[j], c)
                  => LoadPosition(seq[i]) < LoadPosition(seq[j])

\* Two to the k.
RECURSIVE Pow2(_)
Pow2(k) == IF k = 0 THEN 1 ELSE 2 * Pow2(k - 1)

\* floor(log2(n)) for n >= 1.
Log2Floor(n) == CHOOSE k \in 0..n : Pow2(k) <= n /\ n < Pow2(k + 1)

\* A result or an error by what it holds, whatever the ids of its objects.
Deep(O, A, out) ==
  [kind |-> out.kind, message |-> out.message, columns |-> out.columns,
   rows |-> IF out.kind = "result"
            THEN [i \in 1..Len(A[out.rows]) |-> O[A[out.rows][i]]]
            ELSE <<>>]

DeepOf(r) == Deep(r.objects, r.arrays, r.outcome)

\* What the query gives on the table as the constructor left it.
OnSnapshot(q) ==
  DeepOf(query([columnTypes |-> snapshot.columnTypes,
                columnIndices |-> snapshot.columnIndices,
                rows |-> snapshot.rows],
               snapshot.objects, snapshot.arrays, held, q))

\* The table is as the constructor left it.
TableIntact == TableState(Db, objects, arrays) = snapshot

----------------------------------------------------------------------------
(* The claims *)

\* C1: for a valid query with an `=` filter on column c and operand v, the
\* filter stage (searchEqual on c's index) returns exactly the records whose
\* c-value equals v, each once, in load order (empty when there is none).
SearchEqualExact ==
  Answered("=") =>
    /\ outcome.kind = "result"
    /\ trace.filtered =
         SelectSeq(LoadOrder,
                   LAMBDA id : ValueAt(id, trace.query.filter.column)
                                 = trace.query.filter.value)

\* C1 witness: an `=` search that returned two of three records, which do
\* not sit next to each other in the load order.
SearchEqualWitness ==
  /\ Answered("=")
  /\ Len(LoadOrder) = 3
  /\ trace.filtered = <<LoadOrder[1], LoadOrder[3]>>

\* C2: for a valid query with a `>` filter on column c and operand v, the
\* filter stage (searchGreaterThan on c's index) returns exactly the records
\* whose c-value is greater than v, each once, ascending in c with equal
\* values in load order; and with searchEqual(v) and the records less than v
\* it splits the table into three disjoint parts.
SearchGreaterThanExact ==
  Answered(">") =>
    /\ outcome.kind = "result"
    /\ NoDuplicates(trace.filtered)
    /\ Range(trace.filtered) =
         {id \in Range(LoadOrder) :
            JsGreater(ValueAt(id, trace.query.filter.column), trace.query.filter.value)}
    /\ AscendingStable(trace.filtered, trace.query.filter.column)
    /\ LET c == trace.query.filter.column
           v == trace.query.filter.value
           equal == searchEqual(c, objects, arrays, {}, columnIndices[c], v)
           equals == Range(equal.arrays[equal.ref])
           less == {id \in Range(LoadOrder) : JsLess(ValueAt(id, c), v)}
       IN /\ equals \cap Range(trace.filtered) = {}
          /\ equals \cap less = {}
          /\ less \cap Range(trace.filtered) = {}
          /\ equals \cup less \cup Range(trace.filtered) = Range(LoadOrder)

\* C2 witness: a `>` search that returned two records in another order than
\* they were loaded in, and left one out.
SearchGreaterThanWitness ==
  /\ Answered(">")
  /\ Len(LoadOrder) = 3
  /\ trace.filtered = <<LoadOrder[3], LoadOrder[1]>>

\* C3: a query the parser accepts that names, in its projection or in its
\* filter, a column the loaded data does not have fails with QueryError, and
\* neither the filter stage nor the projection stage runs.
UnknownColumnRejected ==
  ( /\ phase = "returned"
    /\ trace.query.ok
    /\ \/ \E i \in 1..Len(trace.query.columns) :
            trace.query.columns[i] \notin DOMAIN columnTypes
       \/ /\ trace.query.filter.op # "none"
          /\ trace.query.filter.column \notin DOMAIN columnTypes )
  => /\ outcome.kind = "QueryError"
     /\ "filter" \notin Range(trace.stages)
     /\ "project" \notin Range(trace.stages)

\* C4: a query whose filter operand has another type than the filter's
\* column fails with QueryError before any search runs; and no search ever
\* compares an operand with a column value of the other type.
TypeMismatchRejected ==
  /\ ( /\ phase = "returned"
       /\ trace.query.ok
       /\ trace.query.filter.op # "none"
       /\ trace.query.filter.column \in DOMAIN columnTypes
       /\ columnTypes[trace.query.filter.column] # TypeOf(trace.query.filter.value) )
     => /\ outcome.kind = "QueryError"
        /\ trace.searches = <<>>
        /\ "filter" \notin Range(trace.stages)
  /\ \A i \in 1..Len(trace.searches) : ~trace.searches[i].mixed

\* C4 witness: a number compared with a string column was rejected by the
\* validation.
TypeMismatchWitness ==
  /\ phase = "returned"
  /\ trace.query.filter.op = "="
  /\ trace.query.filter.column \in DOMAIN columnTypes
  /\ columnTypes[trace.query.filter.column] = "string"
  /\ TypeOf(trace.query.filter.value) = "number"
  /\ outcome = Thrown("QueryError", "Invalid value type")

\* Column c of the records the reader yielded holds both types.
MixedColumn(c) ==
  \E i, j \in 1..Len(input) : TypeOf(input[i][c]) # TypeOf(input[j][c])

\* C5: the constructor throws DataError when the reader yields no row and
\* when a column holds both a string and a number, before any ColumnIndex is
\* built (no sort compares a string with a number) and leaving no table; in
\* every other case it returns, with the schema giving each column of the
\* first record the one type of all its values.
ConstructionChecked ==
  /\ ~sortMixed
  /\ phase # "new" =>
       IF Len(input) = 0 \/ \E c \in Range(Header) : MixedColumn(c)
       THEN /\ phase = "failed"
            /\ outcome.kind = "DataError"
            /\ built = {}
            /\ columnIndices = NoProps
            /\ rows = 0
       ELSE /\ Exists
            /\ DOMAIN columnTypes = DOMAIN input[1]
            /\ \A c \in DOMAIN input[1] : \A i \in 1..Len(input) :
                 columnTypes[c] = TypeOf(input[i][c])

\* C5 witness: a constructor that threw on three rows whose first column is
\* of one type and whose second column is mixed.
ConstructionWitness ==
  /\ phase = "failed"
  /\ Len(input) = 3
  /\ ~MixedColumn("title")
  /\ MixedColumn("year")

\* C6: whatever queries have run, returned or thrown, the table (records,
\* schema, every index) is as the constructor left it, and the query that
\* has just returned gave what it gives on the table as constructed.
QueriesLeaveTable ==
  Exists =>
    /\ TableIntact
    /\ phase = "returned" =>
         Deep(objects, arrays, outcome) = OnSnapshot(trace.query)

\* C6 witness: a `>` query that returned two records, on a table still as it
\* was built.
QueriesLeaveTableWitness ==
  /\ Answered(">")
  /\ Len(trace.filtered) = 2
  /\ TableIntact

\* C7: for a valid query the result's columns are the projection list and
\* its rows are, one for one and in the same order, the records of the
\* filter stage (all records in load order without a filter; ascending in
\* the filter column with ties in load order with one), each row holding
\* exactly the requested columns with the record's values.
ProjectionFollowsFilter ==
  ( phase = "returned" /\ ValidQuery(trace.query) ) =>
    /\ outcome.kind = "result"
    /\ outcome.columns = trace.query.columns
    /\ Len(arrays[outcome.rows]) = Len(trace.filtered)
    /\ \A i \in 1..Len(trace.filtered) :
         /\ DOMAIN objects[arrays[outcome.rows][i]] = Range(trace.query.columns)
         /\ \A c \in Range(trace.query.columns) :
              objects[arrays[outcome.rows][i]][c] = ValueAt(trace.filtered[i], c)
    /\ IF trace.query.filter.op = "none"
       THEN trace.filtered = LoadOrder
       ELSE /\ Range(trace.filtered) \subseteq Range(LoadOrder)
            /\ AscendingStable(trace.filtered, trace.query.filter.column)

\* C7 witness: two columns projected, in another order than the header's,
\* from two records that the filter stage gave in another order than the
\* load order.
ProjectionWitness ==
  /\ Answered(">")
  /\ trace.query.columns = <<"year", "title">>
  /\ Len(LoadOrder) = 3
  /\ trace.filtered = <<LoadOrder[3], LoadOrder[2]>>

\* C8: in every state after construction, each column's index holds every
\* record of the table exactly once, ascending in that column, records of
\* equal value in load order.
IndexSortedStable ==
  Exists =>
    \A c \in DOMAIN columnTypes :
      /\ c \in DOMAIN columnIndices
      /\ Len(arrays[columnIndices[c]]) = Len(LoadOrder)
      /\ NoDuplicates(arrays[columnIndices[c]])
      /\ Range(arrays[columnIndices[c]]) = Range(LoadOrder)
      /\ AscendingStable(arrays[columnIndices[c]], c)

\* C8 witness: an index of three records, two of them of equal value, that
\* is not in load order.
IndexWitness ==
  /\ Exists
  /\ Len(LoadOrder) = 3
  /\ arrays[columnIndices["title"]] = <<LoadOrder[2], LoadOrder[3], LoadOrder[1]>>
  /\ ValueAt(LoadOrder[2], "title") = ValueAt(LoadOrder[3], "title")

\* C9: each binary search over n >= 1 records ends after at most
\* floor(log2(n)) + 1 iterations, probes only positions 0 .. n-1, and returns
\* -1 or a position 0 .. n-1; and the first equal position is not after the
\* last.
SearchesBounded ==
  /\ \A i \in 1..Len(trace.searches) :
       LET s == trace.searches[i]
       IN /\ s.n >= 1
          /\ Len(s.probes) <= Log2Floor(s.n) + 1
          /\ \A k \in 1..Len(s.probes) : s.probes[k] \in 0..(s.n - 1)
          /\ ~s.thrown
          /\ s.result \in {-1} \cup 0..(s.n - 1)
  /\ Len(trace.searches) = 2 =>
       /\ trace.searches[1].name = "findFirstEqual"
       /\ trace.searches[2].name = "findLastEqual"
       /\ trace.searches[1].result # -1
       /\ trace.searches[1].result <= trace.searches[2].result

\* C9 witness: over three records, both equality searches took two
\* iterations and found different positions.
SearchesWitness ==
  /\ Len(trace.searches) = 2
  /\ trace.searches[1].n = 3
  /\ Len(trace.searches[1].probes) = 2
  /\ Len(trace.searches[2].probes) = 2
  /\ trace.searches[1].result < trace.searches[2].result

\* C10: the array and the rows of a result are made by the call that
\* returns them: they are no object that existed before the call (none of
\* the table's, none of an earlier result the caller keeps); so whatever
\* the caller writes to, removes from or adds to a result, the table stays
\* as it was built and a later query gives what it gives on that table.
ResultsAreFresh ==
  /\ Exists => TableIntact
  /\ ( phase = "returned" /\ outcome.kind = "result" ) =>
       /\ ResultArrays(outcome) \cap (TableArrays(Db, arrays) \cup held.arrays) = {}
       /\ ResultObjects(outcome, arrays)
            \cap (TableObjects(Db, arrays) \cup held.objects) = {}
       /\ trace.mutations = 0 =>
            /\ outcome.rows \notin trace.pre.arrays
            /\ ResultObjects(outcome, arrays) \cap trace.pre.objects = {}
            /\ Deep(objects, arrays, outcome) = OnSnapshot(trace.query)

\* C10 witness: the caller kept one result, ran another query and wrote to
\* a row of the result it got.
ResultsAreFreshWitness ==
  /\ phase = "returned"
  /\ held.arrays # {}
  /\ outcome.kind = "result"
  /\ trace.mutations = 1
  /\ \E id \in ResultObjects(outcome, arrays) :
       \E c \in DOMAIN objects[id] : objects[id][c] = CallerValue

====
